---- MODULE Spec2Model ----
(***************************************************************************)
(* A model of the Streamlit to-do tracker of src/app.py.                   *)
(*                                                                         *)
(* The program is a script that Streamlit runs from top to bottom once per *)
(* user event (a form submit, a checkbox, a button).  The state that       *)
(* survives between runs is st.session_state (tasks, editing_task) and the *)
(* file todo_data.json.  Every action below is one such run: the event,    *)
(* the handler it reaches, and the st.rerun() that ends it.                *)
(*                                                                         *)
(* Conventions of the model:                                               *)
(*  - a Python str is a sequence of one-character strings, so that         *)
(*    str.lower() and the substring test `in` are computed;                *)
(*  - a Python dict is a record whose DOMAIN is its set of keys; two      *)
(*    elements of the list can be equal dicts and still be two objects,    *)
(*    so a reference to a dict of the list is the index of that element;   *)
(*  - a calendar date, and its "%Y-%m-%d" text, is a day number; a         *)
(*    datetime, and its "%Y-%m-%d %H:%M:%S" text, is a number of clock     *)
(*    ticks (seconds), TicksPerDay of them to the day.                     *)
(***************************************************************************)
EXTENDS Integers, Sequences, FiniteSets, TLC

\* ------------------------------------------------------------- bounds
\* Add is not offered once the list holds MaxTasks tasks.
MaxTasks == 2
\* The clock advances at most MaxTicks times.
MaxTicks == 1
\* Seconds in a day, scaled down.
TicksPerDay == 2
\* The clock reading when the model starts (Unix time is far above any
\* list index).
FirstSecond == 100

VARIABLES
    file,          \* todo_data.json
    tasks,         \* st.session_state.tasks
    editing_task,  \* st.session_state.editing_task: {} when the key is absent,
                   \* else {i}: the dict it aliases is element i of the list,
                   \* or is no element of the list any more (i = 0)
    now,           \* the wall clock, in ticks
    last           \* the event the last run handled, with what it submitted

vars == <<file, tasks, editing_task, now, last>>

\* ------------------------------------------------------ Python values
PyList(items) == [type |-> "list", items |-> items]
\* What json.load returns for a document that is a number, not an array.
PyInt == [type |-> "int", items |-> <<>>]
\* 'tasks' not in st.session_state: load_tasks raised before it was set.
NotSet == [type |-> "unset", items |-> <<>>]
None == [none |-> TRUE]


\* str.lower() on the model's alphabet.
LowerChar(c) == CASE c = "A" -> "a" [] c = "B" -> "b" [] OTHER -> c
lower(s) == [i \in 1..Len(s) |-> LowerChar(s[i])]
\* Python's `needle in hay` on str.
Contains(needle, hay) ==
    \E i \in 0..(Len(hay) - Len(needle)) :
        SubSeq(hay, i + 1, i + Len(needle)) = needle

today(clock) == clock \div TicksPerDay
Day0 == today(FirstSecond)

\* ------------------------------------------------------------ the file
Absent == [kind |-> "absent", doc |-> None]
\* Text that json.load rejects with JSONDecodeError.
Malformed == [kind |-> "malformed", doc |-> None]
\* Bytes that are not text in the file's encoding: f.read() raises
\* UnicodeDecodeError, a ValueError that is not a JSONDecodeError.
Undecodable == [kind |-> "undecodable", doc |-> None]
JsonFile(doc) == [kind |-> "json", doc |-> doc]
JsonArray(objects) == [type |-> "array", items |-> objects]
JsonNumber == [type |-> "number", items |-> <<>>]

\* json.dump: a list of dicts becomes an array of objects of the same keys
\* and values (the values are str, int and bool).
json_dump(py) ==
    IF py.type = "list" THEN JsonArray(py.items) ELSE JsonNumber

\* json.load: an array of objects becomes a list of dicts.
json_load(doc) ==
    IF doc.type = "array" THEN PyList(doc.items) ELSE PyInt

load_tasks(f) ==
    IF f.kind = "absent" THEN [raised |-> FALSE, value |-> PyList(<<>>)]
    ELSE IF f.kind = "malformed" THEN [raised |-> FALSE, value |-> PyList(<<>>)]
    ELSE IF f.kind = "undecodable" THEN [raised |-> TRUE, value |-> NotSet]
    ELSE [raised |-> FALSE, value |-> json_load(f.doc)]

\* A mutant of save_tasks: the write is skipped.
save_tasks_skipped(py) == file

\* The content of the file after save_tasks(py).
save_tasks(py) == JsonFile(json_dump(py))

\* ------------------------------------------------------------- inputs
Form(task, category, priority, due_date, notes) ==
    [task |-> task, category |-> category, priority |-> priority,
     due_date |-> due_date, notes |-> notes]

\* What the user may submit in the add form.
AddForms ==
    { Form(<<>>, "General", "High", Day0, ""),
      Form(<<"a">>, "General", "Low", Day0, ""),
      Form(<<"A", "b">>, "Work", "High", Day0 + 1, "") }

\* What the user may submit in the edit form (it has no notes field).
EditForms ==
    { [k \in {"task", "category", "priority", "due_date"} |-> f[k]] : f \in AddForms }

SearchTerms == { <<>>, <<"a">>, <<"B">>, <<"a", "b">> }

\* Task records of an earlier session, as a file may hold them.
Stored(task, category, notes, completed) ==
    [task |-> task, category |-> category, priority |-> "Low",
     due_date |-> Day0, notes |-> notes, completed |-> completed,
     created_at |-> FirstSecond - 1]
WithId(d, id) == [k \in DOMAIN d \cup {"id"} |-> IF k = "id" THEN id ELSE d[k]]

InitialFiles ==
    { Absent, Malformed, Undecodable, JsonFile(JsonNumber),
      JsonFile(JsonArray(<< WithId(Stored(<<"a">>, "Work", "n", TRUE), FirstSecond - 1) >>)),
      \* records written without an id: display_tasks keys their widgets by index
      JsonFile(JsonArray(<< Stored(<<"a">>, "General", "", FALSE),
                            Stored(<<"b">>, "General", "", FALSE),
                            Stored(<<"a">>, "General", "", FALSE) >>)) }

\* ------------------------------------------------------- add_task_form
\* A mutant of add_task_form: the description is not validated.
add_task_form_unvalidated(form, clock) ==
    [id |-> clock, task |-> form.task, category |-> form.category,
     priority |-> form.priority, due_date |-> form.due_date,
     notes |-> form.notes, completed |-> FALSE, created_at |-> clock]

\* The dict the submitted form yields, or None.
add_task_form(form, clock) ==
    IF form.task = <<>>
    THEN None
    ELSE [id |-> clock, task |-> form.task, category |-> form.category,
          priority |-> form.priority, due_date |-> form.due_date,
          notes |-> form.notes, completed |-> FALSE, created_at |-> clock]

\* ------------------------------------------------------- display_tasks
Categories(items) == { items[i].category : i \in 1..Len(items) }

\* The values the search box and the three select boxes can hold.
Criteria(items) ==
    [search_term : SearchTerms,
     category_filter : {"All"} \cup Categories(items),
     priority_filter : {"All", "Low", "Medium", "High"},
     status_filter : {"All", "Completed", "Pending"}]

\* tasks.copy(): a new list of the same dict objects.  A row of the copy is
\* the index in tasks of the element it refers to.
tasks_copy(items) == [i \in 1..Len(items) |-> i]

\* A mutant of filtered_tasks: the search compares without lower().
filtered_tasks_case_sensitive(items, c) ==
    LET f1 == IF c.search_term # <<>>
              THEN SelectSeq(tasks_copy(items),
                             LAMBDA r : Contains(c.search_term, items[r].task))
              ELSE tasks_copy(items)
        f2 == IF c.category_filter # "All"
              THEN SelectSeq(f1, LAMBDA r : items[r].category = c.category_filter)
              ELSE f1
        f3 == IF c.priority_filter # "All"
              THEN SelectSeq(f2, LAMBDA r : items[r].priority = c.priority_filter)
              ELSE f2
    IN  IF c.status_filter = "Completed" THEN SelectSeq(f3, LAMBDA r : items[r].completed)
        ELSE IF c.status_filter = "Pending" THEN SelectSeq(f3, LAMBDA r : ~items[r].completed)
        ELSE f3

\* filtered_tasks as display_tasks computes it: four passes over the copy.
filtered_tasks(items, c) ==
    LET f1 == IF c.search_term # <<>>
              THEN SelectSeq(tasks_copy(items),
                             LAMBDA r : Contains(lower(c.search_term), lower(items[r].task)))
              ELSE tasks_copy(items)
        f2 == IF c.category_filter # "All"
              THEN SelectSeq(f1, LAMBDA r : items[r].category = c.category_filter)
              ELSE f1
        f3 == IF c.priority_filter # "All"
              THEN SelectSeq(f2, LAMBDA r : items[r].priority = c.priority_filter)
              ELSE f2
    IN  IF c.status_filter = "Completed" THEN SelectSeq(f3, LAMBDA r : items[r].completed)
        ELSE IF c.status_filter = "Pending" THEN SelectSeq(f3, LAMBDA r : ~items[r].completed)
        ELSE f3

\* The x of key=f"done_{x}", f"edit_{x}", f"del_{x}"; idx counts from 0.
widget_key(t, idx) == IF "id" \in DOMAIN t THEN t.id ELSE idx

\* The loop reaches row i of the view and draws it: Streamlit raises on the
\* second widget of one key, which ends the run at that row.
RowDrawn(items, view, i) ==
    \A j, k \in 1..i :
        j < k => widget_key(items[view[j]], j - 1) # widget_key(items[view[k]], k - 1)

\* The elements of tasks whose widgets can be clicked: those some filter
\* setting draws.
Clickable ==
    { p \in 1..Len(tasks.items) :
        \E c \in Criteria(tasks.items) :
            \E view \in { filtered_tasks(tasks.items, c) } :
                \E i \in 1..Len(view) : view[i] = p /\ RowDrawn(tasks.items, view, i) }

\* display_tasks raises under every filter setting (each view draws two
\* widgets of one key), so main never reaches the widgets that follow it.
DisplayRaises ==
    \A c \in Criteria(tasks.items) :
        \A view \in { filtered_tasks(tasks.items, c) } :
            ~RowDrawn(tasks.items, view, Len(view))

\* The per-task text of the due date: days_left and its three cases.
days_left(t, clock) == t.due_date - today(clock)
display_status(t, clock) ==
    IF days_left(t, clock) < 0 THEN "Overdue"
    ELSE IF days_left(t, clock) = 0 THEN "Due today"
    ELSE "days left"

\* list.index(t): the first element equal to t (dicts compare by content).
index(items, t) ==
    CHOOSE i \in 1..Len(items) :
        items[i] = t /\ \A j \in 1..(i - 1) : items[j] # t

\* The list after list.remove(t): its first element equal to t is gone.
remove(items, t) ==
    [k \in 1..(Len(items) - 1) |->
        IF k < index(items, t) THEN items[k] ELSE items[k + 1]]

\* Where the dict that editing_task aliases is once element q has left the
\* list (the alias itself is not assigned to).
alias_after_remove(e, q) ==
    { IF i = q THEN 0 ELSE IF i > q THEN i - 1 ELSE i : i \in e }

\* ------------------------------------------------------ edit_task_form
\* A mutant of Edited: saving also clears the completion flag.
Edited_clears_completed(t, form) ==
    [t EXCEPT !.task = form.task, !.category = form.category,
              !.priority = form.priority, !.due_date = form.due_date,
              !.completed = FALSE]

\* The four assignments of Save Changes on the dict t.
Edited(t, form) ==
    [t EXCEPT !.task = form.task, !.category = form.category,
              !.priority = form.priority, !.due_date = form.due_date]

\* --------------------------------------------------------- show_charts
\* (due_date - Timestamp.now()).dt.days: the days of a timedelta, floored.
days_until_due(t, clock) == (t.due_date * TicksPerDay - clock) \div TicksPerDay
chart_status(t, clock) ==
    IF days_until_due(t, clock) < 0 THEN "Overdue"
    ELSE IF days_until_due(t, clock) <= 3 THEN "Due Soon"
    ELSE "Future"

\* The quick-stats count of overdue tasks.
overdue(items, clock) ==
    Cardinality({ i \in 1..Len(items) :
        ~items[i].completed /\ items[i].due_date < today(clock) })

\* -------------------------------------------------------------- actions
Init ==
    /\ file \in InitialFiles
    /\ tasks = load_tasks(file).value
    /\ editing_task = {}
    /\ now = FirstSecond
    /\ last = [op |-> "Start"]

\* A new browser session: main finds no 'tasks' in its session state.
NewSession ==
    /\ tasks' = load_tasks(file).value
    /\ editing_task' = {}
    /\ last' = [op |-> "NewSession"]
    /\ UNCHANGED <<file, now>>

Tick ==
    /\ now < FirstSecond + MaxTicks
    /\ now' = now + 1
    /\ last' = [op |-> "Tick"]
    /\ UNCHANGED <<file, tasks, editing_task>>

\* The add form is submitted: add_task_form, then main's append and save.
\* On a tasks value that is no list, append raises and the run ends.
Add ==
    \E form \in AddForms :
        LET new_task == add_task_form(form, now) IN
        /\ tasks.type # "unset"
        /\ tasks.type = "list" => Len(tasks.items) < MaxTasks
        /\ IF new_task # None /\ tasks.type = "list"
           THEN /\ tasks' = PyList(Append(tasks.items, new_task))
                /\ file' = save_tasks(tasks')
           ELSE UNCHANGED <<tasks, file>>
        /\ last' = [op |-> "Add", form |-> form,
                    outcome |-> IF new_task = None THEN "validation error"
                                ELSE IF tasks.type = "list" THEN "added"
                                ELSE "raised"]
        /\ UNCHANGED <<editing_task, now>>

\* The checkbox of a drawn task is clicked: done differs from task['completed'].
Toggle ==
    \E p \in Clickable :
        /\ tasks' = PyList([tasks.items EXCEPT ![p].completed = ~@])
        /\ file' = save_tasks(tasks')
        /\ last' = [op |-> "Toggle"]
        /\ UNCHANGED <<editing_task, now>>

\* The edit button of a drawn task: editing_task becomes that dict object.
EditStart ==
    \E p \in Clickable :
        /\ editing_task' = {p}
        /\ last' = [op |-> "Edit"]
        /\ UNCHANGED <<file, tasks, now>>

\* Save Changes: the dict editing_task names is assigned to, the list is
\* saved, the key is deleted.  The dict may no longer be an element of the list.
SaveChanges ==
    \E e \in editing_task, form \in EditForms :
        /\ tasks' = PyList([i \in 1..Len(tasks.items) |->
                        IF i = e THEN Edited(tasks.items[i], form) ELSE tasks.items[i]])
        /\ file' = save_tasks(tasks')
        /\ editing_task' = {}
        /\ last' = [op |-> "Save", at |-> e, form |-> form]
        /\ UNCHANGED now

Cancel ==
    /\ editing_task # {}
    /\ editing_task' = {}
    /\ last' = [op |-> "Cancel"]
    /\ UNCHANGED <<file, tasks, now>>

\* The delete button of a drawn task: tasks.remove(task), then save.
Delete ==
    \E p \in Clickable :
        /\ tasks' = PyList(remove(tasks.items, tasks.items[p]))
        /\ file' = save_tasks(tasks')
        /\ editing_task' = alias_after_remove(editing_task, index(tasks.items, tasks.items[p]))
        /\ last' = [op |-> "Delete", at |-> p]
        /\ UNCHANGED now

\* Reset All Data: reset_data removes the file and empties the list;
\* editing_task is not assigned to: the dict it aliases has left the list.
Reset ==
    /\ tasks.type = "list"
    /\ ~DisplayRaises
    /\ file' = Absent
    /\ tasks' = PyList(<<>>)
    /\ editing_task' = { 0 : e \in editing_task }
    /\ last' = [op |-> "Reset"]
    /\ UNCHANGED now

Next ==
    \/ NewSession
    \/ Tick
    \/ Add
    \/ Toggle
    \/ EditStart
    \/ SaveChanges
    \/ Cancel
    \/ Delete
    \/ Reset

Spec == Init /\ [][Next]_vars

\* The same program started on an empty store (no file).
InitEmpty == Init /\ file = Absent
SpecEmptyStore == InitEmpty /\ [][Next]_vars

\* ------------------------------------------- the filter as a function
\* The dicts a task list may hold: what a form yields, edited or completed.
ViewTasks ==
    { [id |-> FirstSecond, task |-> f.task, category |-> f.category,
       priority |-> f.priority, due_date |-> f.due_date, notes |-> f.notes,
       completed |-> done, created_at |-> FirstSecond] :
      f \in AddForms, done \in BOOLEAN }

\* The lists of at most MaxTasks such dicts.
ViewLists == UNION { [1..n -> ViewTasks] : n \in 0..MaxTasks }

InitView ==
    /\ file = Absent
    /\ tasks \in { PyList(s) : s \in ViewLists }
    /\ editing_task = {}
    /\ now = FirstSecond
    /\ last = [op |-> "Start"]

\* display_tasks runs with the filter widgets set to c.
View ==
    \E c \in Criteria(tasks.items) :
        /\ last' = [op |-> "View", criteria |-> c,
                    view |-> filtered_tasks(tasks.items, c)]
        /\ UNCHANGED <<file, tasks, editing_task, now>>

SpecView == InitView /\ [][View]_vars

\* ---------------------------------------------------------------- claims
Items == tasks.items
HasId(t) == "id" \in DOMAIN t

\* C1: in every reachable state no two tasks of the in-memory list have the
\* same id; two Adds within one clock second get different ids.
C1_IdsUnique ==
    \A i, j \in 1..Len(Items) :
        (i # j /\ HasId(Items[i]) /\ HasId(Items[j])) => Items[i].id # Items[j].id

\* C2: after every user action the task list that loading the file yields
\* equals the in-memory task list (an absent file counts as the empty list).
C2_FileMatchesMemory ==
    tasks.type # "unset" =>
        /\ ~load_tasks(file).raised
        /\ load_tasks(file).value = tasks

C2_Witness ==
    /\ last.op = "Delete"
    /\ file.kind = "json"
    /\ Len(Items) > 0
    /\ \E i \in 1..Len(Items) : Items[i].completed

\* C3: an Add submitted with an empty description is rejected with a
\* validation error and leaves the in-memory list and the file as they were.
C3_EmptyAddChangesNothing ==
    [][(last'.op = "Add" /\ last'.form.task = <<>>) =>
           /\ tasks' = tasks
           /\ file' = file
           /\ last'.outcome = "validation error"]_vars

C3_Witness ==
    /\ last.op = "Add"
    /\ last.form.task = <<>>
    /\ last.outcome = "validation error"
    /\ file.kind = "json"
    /\ Len(Items) > 0

EditedKeys == {"task", "category", "priority", "due_date"}

\* C4: Save Changes replaces task, category, priority and due_date of the
\* task being edited and nothing else: its other keys, every other task, the
\* length and the order of the list stay, and the file holds the new list.
C4_EditFrame ==
    [][last'.op = "Save" =>
           /\ editing_task = {last'.at}
           /\ tasks'.type = "list"
           /\ Len(tasks'.items) = Len(Items)
           /\ \A i \in 1..Len(Items) :
                 IF i = last'.at
                 THEN /\ DOMAIN tasks'.items[i] = DOMAIN Items[i]
                      /\ \A k \in EditedKeys : tasks'.items[i][k] = last'.form[k]
                      /\ \A k \in DOMAIN Items[i] \ EditedKeys :
                            tasks'.items[i][k] = Items[i][k]
                 ELSE tasks'.items[i] = Items[i]
           /\ file' = JsonFile(JsonArray(tasks'.items))]_vars

\* A completed task with notes, stored by an earlier session, was edited
\* into another category, next to another task.
C4_Witness ==
    /\ last.op = "Save"
    /\ Len(Items) > 1
    /\ \E i \in 1..Len(Items) :
          /\ i = last.at
          /\ Items[i].completed
          /\ Items[i].notes = "n"
          /\ Items[i].category = "General"
          /\ Items[i].task = last.form.task

\* Two characters that differ at most in case.
SameLetter(c, d) == c = d \/ {c, d} \in { {"a", "A"}, {"b", "B"} }
OccursIn(term, text) ==
    \E off \in 0..(Len(text) - Len(term)) :
        \A k \in 1..Len(term) : SameLetter(term[k], text[off + k])
\* Task t meets every active criterion of c.
Satisfies(t, c) ==
    /\ c.search_term = <<>> \/ OccursIn(c.search_term, t.task)
    /\ c.category_filter = "All" \/ t.category = c.category_filter
    /\ c.priority_filter = "All" \/ t.priority = c.priority_filter
    /\ c.status_filter = "All" \/ (c.status_filter = "Completed" <=> t.completed)
\* Setting d keeps every active criterion of c (and may activate more).
Activates(d, c) ==
    /\ c.search_term = <<>> \/ d.search_term = c.search_term
    /\ c.category_filter = "All" \/ d.category_filter = c.category_filter
    /\ c.priority_filter = "All" \/ d.priority_filter = c.priority_filter
    /\ c.status_filter = "All" \/ d.status_filter = c.status_filter

Bucket(d) == IF d < 0 THEN "Overdue" ELSE IF d <= 3 THEN "Due Soon" ELSE "Future"

\* C6: the chart puts every pending task in the bucket of days_left =
\* due_date - today, and calls Overdue what the task row and the quick
\* stats call overdue.
C6_ChartFollowsDaysLeft ==
    /\ \A i \in 1..Len(Items) :
          ~Items[i].completed =>
              /\ chart_status(Items[i], now) = Bucket(days_left(Items[i], now))
              /\ chart_status(Items[i], now) = "Overdue"
                     <=> display_status(Items[i], now) = "Overdue"
    /\ overdue(Items, now) =
          Cardinality({ i \in 1..Len(Items) :
              ~Items[i].completed /\ chart_status(Items[i], now) = "Overdue" })

\* The list without its element p.
Without(items, p) ==
    [k \in 1..(Len(items) - 1) |-> IF k < p THEN items[k] ELSE items[k + 1]]

\* C7: Delete removes exactly the task whose button was clicked: the list is
\* the previous one without it, the others unchanged and in order, and the
\* file holds that list.
C7_DeleteRemovesIdentified ==
    [][last'.op = "Delete" =>
           /\ tasks'.items = Without(Items, last'.at)
           /\ file' = JsonFile(JsonArray(Without(Items, last'.at)))]_vars

\* C8: load never raises and returns a list in every file state, the empty
\* list when the file is absent or does not parse; the session's tasks are
\* a list.
C8_LoadReturnsList ==
    /\ ~load_tasks(file).raised
    /\ load_tasks(file).value.type = "list"
    /\ file.kind \in {"absent", "malformed"} => load_tasks(file).value = PyList(<<>>)
    /\ tasks.type = "list"

\* C9: started from an empty store, every task of the list and of the file
\* has a non-empty description.
C9_DescriptionsNonEmpty ==
    /\ \A i \in 1..Len(Items) : Items[i].task # <<>>
    /\ file.kind = "json" =>
          \A i \in 1..Len(file.doc.items) : file.doc.items[i].task # <<>>

\* C10: while an edit is in progress its target is a task of the list.
C10_EditTargetInList ==
    \A e \in editing_task : e \in 1..Len(Items)

====
